---- MODULE Spec2Model ----
(***************************************************************************)
(* Model of the synthetic-capture extension (Primera_Extensio_python):     *)
(* scenario.py (SyntheticCaptureScenario) and ui_builder.py (UIBuilder).   *)
(*                                                                         *)
(* Conventions                                                             *)
(*  - An optional Python value (None or a value) is a set with at most one *)
(*    element: {} is None, {v} is v.                                       *)
(*  - A Python dict is a sequence of [key, val] entries with distinct keys *)
(*    (insertion order is kept, as Python keeps it).                       *)
(*  - A float is an integer number of tenths (Scale): 15 is 1.5.           *)
(***************************************************************************)
EXTENDS Integers, Sequences, FiniteSets, Bags, TLC

VARIABLES
  lr,       \* label-resolution run: the query (id, two tables) and its result
  sm,       \* semantic-stage run: the raw payloads, the locals and the stage reached
  bx,       \* bounding-box run: the raw payload, the row loop's locals, the overlay
  created,          \* SyntheticCaptureScenario._created
  render_product,   \* _render_product: {} (None) or {g}, the product of scene g
  ann,              \* _ann_rgb/_ann_sem/_ann_bbox: {} (None) or {g}, attached to scene g
  scenes,           \* number of create_scene calls so far
  frame_idx,        \* _frame_idx
  tasks,            \* the bag of asyncio tasks made by ensure_future and not yet ended
  files,            \* the artifacts in OUTPUT_DIR: pairs <<index, kind>>
  status,           \* UIBuilder._status_label.text
  settled,          \* full settle cycles completed since the annotators were bound
  started,          \* number of Start clicks so far
  ntrue,            \* number of captures that have returned True
  took,             \* number of captures that have run line 364 (taken an index)
  last              \* the record of the capture that ended last

pipeVars == <<lr, sm, bx>>
appVars == <<created, render_product, ann, scenes, frame_idx, tasks, files, status, settled,
             started, ntrue, took, last>>
vars == <<lr, sm, bx, created, render_product, ann, scenes, frame_idx, tasks, files, status,
          settled, started, ntrue, took, last>>

(***************************************************************************)
(* Label tables (idToLabels) and the label resolver                        *)
(***************************************************************************)

\* The truth value of an optional string in a Python `if x:` test.
Truthy(o) == \E s \in o : s # ""

\* Dictionary keys: str(id) and int(id) are different keys of a Python dict.
StrKey(id) == [t |-> "str", n |-> id]
IntKey(id) == [t |-> "int", n |-> id]
\* A string key that is no number ("foo"): int(key) raises on it.
WordKey == [t |-> "word", n |-> 0]

\* Values of an idToLabels table.
LNone == [kind |-> "none", s |-> "", cls |-> {}, labels |-> FALSE, lcls |-> {}]
LStr(s) == [kind |-> "str", s |-> s, cls |-> {}, labels |-> FALSE, lcls |-> {}]
LDict(c, hasLabels, c2) ==
  [kind |-> "dict", s |-> "", cls |-> c, labels |-> hasLabels, lcls |-> c2]
LOther == [kind |-> "other", s |-> "", cls |-> {}, labels |-> FALSE, lcls |-> {}]

\* dict.get(key, default)
DictGet(d, key, default) ==
  IF \E i \in 1..Len(d) : d[i].key = key
    THEN LET i == CHOOSE j \in 1..Len(d) : d[j].key = key IN d[i].val
    ELSE default

\* _extract_class(label_info): None, or a string (possibly empty for a bare "").
ExtractClass(li) ==
  IF li.kind = "none" THEN {}
  ELSE IF li.kind = "str" THEN {li.s}
  ELSE IF li.kind # "dict" THEN {}
  ELSE IF Truthy(li.cls) THEN li.cls
  ELSE IF li.labels /\ Truthy(li.lcls) THEN li.lcls
  ELSE {}

\* d.get(str(id), d.get(int(id), None)): the integer key is the default of the
\* string-key lookup, so it is used only when the string key is absent.
LookupBothKeys(d, id) == DictGet(d, StrKey(id), DictGet(d, IntKey(id), LNone))

\* _resolve_label(semantic_id) over id_to_labels_bbox (always a dict) and
\* id_to_labels_sem (a dict or not: semIsDict).
ResolveLabel(id, bboxTable, semIsDict, semTable) ==
  LET lbl == ExtractClass(LookupBothKeys(bboxTable, id)) IN
  IF Truthy(lbl) THEN lbl
  ELSE IF semIsDict
    THEN LET lbl2 == ExtractClass(LookupBothKeys(semTable, id)) IN
         IF Truthy(lbl2) THEN lbl2 ELSE {}
    ELSE {}

(***************************************************************************)
(* Buffer normalizer and semantic-map normalizer                           *)
(* (generate_one_frame_async, lines 189-260)                               *)
(***************************************************************************)

\* gv.RESOLUTION, scaled down (the code's value is (1280, 720)); width # height
\* so that the transposition heuristic can tell the two axis orders apart.
ResW == 3
ResH == 2

\* gv.CLASS_TO_COLOR
CLASS_TO_COLOR ==
  [c \in {"cone", "sphere", "cube"} |->
     CASE c = "cone" -> <<255, 0, 0>>
       [] c = "sphere" -> <<0, 255, 0>>
       [] c = "cube" -> <<0, 0, 255>>]

Black == <<0, 0, 0>>

\* rgb.ndim != 3 or rgb.shape[2] not in (3, 4)  ->  return False
RgbShapeOk(shape) == Len(shape) = 3 /\ shape[3] \in {3, 4}

\* if rgb.shape[0] == res_w and rgb.shape[1] == res_h: transpose the first two axes
SwapsAxes(d0, d1) == d0 = ResW /\ d1 = ResH

\* H, W = rgb_rgb.shape[0], rgb_rgb.shape[1] after the transposition and rgb[:, :, :3]
RgbH(shape) == IF SwapsAxes(shape[1], shape[2]) THEN shape[2] ELSE shape[1]
RgbW(shape) == IF SwapsAxes(shape[1], shape[2]) THEN shape[1] ELSE shape[2]

\* An array is [shape, px]: px[r][c] is the element at (r, c) (of channel 0 for a
\* 3-D array); px is <<>> for an array with fewer than two axes.
Zeros(h, w) == [shape |-> <<h, w>>, px |-> [r \in 1..h |-> [c \in 1..w |-> 0]]]

Transpose(a) ==
  [shape |-> <<a.shape[2], a.shape[1]>>,
   px |-> [c \in 1..a.shape[2] |-> [r \in 1..a.shape[1] |-> a.px[r][c]]]]

\* Lines 209-220: unwrap {data, info.idToLabels}; a JSON string is parsed, a parse
\* failure gives None. The table is [isDict, entries].
SemData(raw) == IF raw.wrapped THEN raw.data ELSE raw.bare

SemTable(raw) ==
  IF raw.wrapped /\ raw.enc \in {"dict", "json"}
    THEN [isDict |-> TRUE, entries |-> raw.entries]
    ELSE [isDict |-> FALSE, entries |-> <<>>]

\* Lines 222-235: the 2-D id grid. data is an optional array.
SemIdsOf(data, H, W) ==
  LET a0 == IF data = {} THEN Zeros(H, W) ELSE CHOOSE a \in data : TRUE
      a1 == IF Len(a0.shape) # 2
              THEN IF Len(a0.shape) = 3 /\ a0.shape[3] = 1
                     THEN [shape |-> <<a0.shape[1], a0.shape[2]>>, px |-> a0.px]
                     ELSE Zeros(H, W)
              ELSE a0
  IN IF SwapsAxes(a1.shape[1], a1.shape[2]) THEN Transpose(a1) ELSE a1

\* Lines 241-243: sid = int(sid_key); a key that is no number is skipped.
KeyIsNumber(key) == key.t \in {"str", "int"}

\* Lines 245-249: the label the mask loop reads from a table value.
MaskLabel(v) ==
  IF v.kind = "dict"
    THEN IF v.cls = {} /\ v.labels THEN v.lcls ELSE v.cls
    ELSE {}

\* Lines 251-252: `if not label or label not in gv.CLASS_TO_COLOR: continue`
MaskPaints(v) == \E c \in MaskLabel(v) : c # "" /\ c \in DOMAIN CLASS_TO_COLOR

\* Line 253: mask[sem_ids == sid] = CLASS_TO_COLOR[label]
PaintEntry(mask, ids, e) ==
  IF KeyIsNumber(e.key) /\ MaskPaints(e.val)
    THEN LET col == CLASS_TO_COLOR[CHOOSE c \in MaskLabel(e.val) : TRUE] IN
         [r \in DOMAIN mask |->
            [c \in DOMAIN mask[r] |-> IF ids.px[r][c] = e.key.n THEN col ELSE mask[r][c]]]
    ELSE mask

\* Lines 239-253: the loop over id_to_labels_sem.items(), in insertion order.
RECURSIVE PaintFrom(_, _, _, _)
PaintFrom(mask, ids, entries, i) ==
  IF i > Len(entries) THEN mask
  ELSE PaintFrom(PaintEntry(mask, ids, entries[i]), ids, entries, i + 1)

\* Lines 237-255: the color mask of a grid and a table.
MaskOf(ids, table) ==
  LET blank == [r \in 1..ids.shape[1] |-> [c \in 1..ids.shape[2] |-> Black]] IN
  IF table.isDict THEN PaintFrom(blank, ids, table.entries, 1) ELSE blank

\* Line 258: numpy broadcasting of (H, W, 3) with (h, w, 3); a mismatch raises ValueError.
Broadcasts(a, b) == a = b \/ a = 1 \/ b = 1
BlendOk(H, W, maskShape) == Broadcasts(H, maskShape[1]) /\ Broadcasts(W, maskShape[2])

(***************************************************************************)
(* Bounding-box normalizer and overlay annotator                           *)
(* (generate_one_frame_async, lines 262-423)                               *)
(***************************************************************************)

\* A value of a row: a number (in tenths) or something float()/int() raises on.
Num(v) == [k |-> "num", v |-> v]
BadCell == [k |-> "bad", v |-> 0]
\* A whole number n as a cell.
Whole(n) == Num(10 * n)

\* An element of bbox_data: a dict row, a list/tuple row, or a scalar.
DictRow(keys, cells) == [form |-> "dict", keys |-> keys, cells |-> cells]
ListRow(cells) == [form |-> "list", keys |-> <<>>, cells |-> cells]
Scalar(cell) == [form |-> "scalar", keys |-> <<>>, cells |-> <<cell>>]

\* Lines 267-271 and 305-318: the payload's rows container and its idToLabels table;
\* a table that is missing, unparsable or no dict becomes {}.
BboxData(raw) == IF raw.wrapped THEN raw.data ELSE raw.bare

BboxTable(raw) ==
  IF raw.wrapped /\ raw.enc \in {"dict", "json"} THEN raw.entries ELSE <<>>

\* Lines 288 and 298: a container whose first element is a scalar is one row; an
\* element of it that is no scalar is a value float() raises on.
FlatRow(items) ==
  ListRow([i \in 1..Len(items) |->
             IF items[i].form = "scalar" THEN items[i].cells[1] ELSE BadCell])

\* Lines 277-302: bbox_data -> list of rows.
RowsOf(data) ==
  IF data.kind \in {"none", "other"} \/ Len(data.items) = 0 THEN <<>>
  ELSE IF data.kind = "array"
    THEN IF data.structured THEN data.items
         ELSE IF data.ndim = 1 /\ data.items[1].form = "scalar" THEN <<FlatRow(data.items)>>
         ELSE data.items
    ELSE IF data.items[1].form = "scalar" THEN <<FlatRow(data.items)>>
         ELSE data.items

\* row.get(name, default)
RowGet(row, name, default) ==
  IF \E i \in 1..Len(row.keys) : row.keys[i] = name
    THEN row.cells[CHOOSE i \in 1..Len(row.keys) : row.keys[i] = name]
    ELSE default

\* int(x) of a float: truncation toward zero.
IntOf(v) == IF v >= 0 THEN v \div 10 ELSE -((-v) \div 10)

\* Lines 378-389: the five values read from a row, before conversion.
RowCells(row) ==
  IF row.form = "dict"
    THEN << RowGet(row, "semanticId", RowGet(row, "id", Whole(-1))),
            RowGet(row, "x_min", RowGet(row, "xmin", Whole(0))),
            RowGet(row, "y_min", RowGet(row, "ymin", Whole(0))),
            RowGet(row, "x_max", RowGet(row, "xmax", Whole(0))),
            RowGet(row, "y_max", RowGet(row, "ymax", Whole(0))) >>
    ELSE SubSeq(row.cells, 1, 5)

\* Lines 385-387: a positional row with fewer than 5 values is skipped.
RowSkipped(row) == row.form # "dict" /\ Len(row.cells) < 5

\* int() or float() raises (ValueError / TypeError) on a value that is no number.
RowRaises(row) == ~RowSkipped(row) /\ \E i \in 1..5 : RowCells(row)[i].k = "bad"

\* The 1.5 of line 354, in tenths.
FractionLimit == 15

\* A _to_pixel_coords that scales x by the height and y by the width.
ToPixelCoordsAxesSwapped(xmin, ymin, xmax, ymax, W, H) ==
  IF /\ 0 <= xmax /\ xmax <= FractionLimit /\ 0 <= ymax /\ ymax <= FractionLimit
     /\ 0 <= xmin /\ xmin <= FractionLimit /\ 0 <= ymin /\ ymin <= FractionLimit
    THEN <<xmin * H, ymin * W, xmax * H, ymax * W>>
    ELSE <<xmin, ymin, xmax, ymax>>

\* _to_pixel_coords(xmin, ymin, xmax, ymax, W, H), on tenths
ToPixelCoords(xmin, ymin, xmax, ymax, W, H) ==
  IF /\ 0 <= xmax /\ xmax <= FractionLimit /\ 0 <= ymax /\ ymax <= FractionLimit
     /\ 0 <= xmin /\ xmin <= FractionLimit /\ 0 <= ymin /\ ymin <= FractionLimit
    THEN <<xmin * W, ymin * H, xmax * W, ymax * H>>
    ELSE <<xmin, ymin, xmax, ymax>>

Max2(a, b) == IF a >= b THEN a ELSE b
Min2(a, b) == IF a <= b THEN a ELSE b

\* Lines 393-394: sorted((max(0, int(lo)), min(size - 1, int(hi))))
ClampSort(lo, hi, size) ==
  LET a == Max2(0, IntOf(lo))
      b == Min2(size - 1, IntOf(hi))
  IN <<Min2(a, b), Max2(a, b)>>

\* Lines 391-394: (xmin_i, ymin_i, xmax_i, ymax_i) of a row that is neither skipped
\* nor raising.
BoxOf(row, W, H) ==
  LET c == RowCells(row)
      p == ToPixelCoords(c[2].v, c[3].v, c[4].v, c[5].v, W, H)
      xs == ClampSort(p[1], p[3], W)
      ys == ClampSort(p[2], p[4], H)
  IN <<xs[1], ys[1], xs[2], ys[2]>>

\* bid = int(...)
RowId(row) == IntOf(RowCells(row)[1].v)

\* self._draw_ground_label (set in __init__, never changed)
DrawGroundLabel == FALSE

\* Lines 396-423: what one row adds to the overlay: nothing, an outline, or an
\* outline with the label text.
RowDraws(row, W, H, bboxTable, sem) ==
  LET label == ResolveLabel(RowId(row), bboxTable, sem.isDict, sem.entries)
      op == [id |-> RowId(row), box |-> BoxOf(row, W, H), text |-> {}]
  IN IF ~Truthy(label) THEN <<op>>
     ELSE IF label = {"ground"} /\ ~DrawGroundLabel THEN <<>>
     ELSE <<[op EXCEPT !.text = label]>>

(***************************************************************************)
(* Values of the runs a specification does not exercise                    *)
(***************************************************************************)
NoArray == [shape |-> <<0, 0>>, px |-> <<>>]
NoTable == [isDict |-> FALSE, entries |-> <<>>]
NoSemRaw == [wrapped |-> FALSE, data |-> {}, bare |-> {}, enc |-> "absent", entries |-> <<>>]
LrIdle == [pc |-> "idle", id |-> 0, primary |-> <<>>, semIsDict |-> FALSE,
           secondary |-> <<>>, result |-> {}]
SemIdle == [pc |-> "idle", rgbShape |-> <<>>, H |-> 0, W |-> 0, raw |-> NoSemRaw,
            table |-> NoTable, ids |-> NoArray, mask |-> <<>>]
NoData == [kind |-> "none", structured |-> FALSE, ndim |-> 0, items |-> <<>>]
NoBboxRaw == [wrapped |-> FALSE, data |-> NoData, bare |-> NoData, enc |-> "absent",
              entries |-> <<>>]
BoxIdle == [pc |-> "idle", W |-> 0, H |-> 0, raw |-> NoBboxRaw, sem |-> NoTable,
            table |-> <<>>, rows |-> <<>>, i |-> 0, overlay |-> <<>>]

\* SyntheticCaptureScenario.__init__ and UIBuilder.build_ui: the state after
\* construction.
AppIdle ==
  /\ created = FALSE
  /\ render_product = {}
  /\ ann = {}
  /\ scenes = 0
  /\ frame_idx = 0
  /\ tasks = EmptyBag
  /\ files = {}
  /\ status = "Status: idle"
  /\ settled = 0
  /\ started = 0
  /\ ntrue = 0
  /\ took = 0
  /\ last = [n |-> 0, how |-> "none", stage |-> "none", idx |-> {}, rank |-> 0, seen |-> {},
             live |-> {}, wrote |-> {}]

(***************************************************************************)
(* Bounded inputs for the label resolver                                   *)
(***************************************************************************)

\* The semantic ids of the bounded inputs: the tables talk about LabelledIds only.
LabelledIds == {7}
SemIds == LabelledIds \cup {0}

ResolveValues ==
  { LNone, LStr("cone"), LStr(""), LOther,
    LDict({"cube"}, FALSE, {}), LDict({}, TRUE, {"sphere"}),
    LDict({""}, TRUE, {"dog"}), LDict({}, FALSE, {}) }

ResolveKeys == {StrKey(i) : i \in LabelledIds} \cup {IntKey(i) : i \in LabelledIds}

\* All tables with at most two entries over ResolveKeys.
ResolveTables ==
  {<<>>}
  \cup { <<[key |-> k, val |-> v]>> : k \in ResolveKeys, v \in ResolveValues }
  \cup { <<[key |-> StrKey(i), val |-> v1], [key |-> IntKey(i), val |-> v2]>> :
           i \in LabelledIds, v1 \in ResolveValues, v2 \in ResolveValues }

ResolveInit ==
  /\ AppIdle
  /\ sm = SemIdle
  /\ bx = BoxIdle
  /\ lr \in [ pc : {"query"}, id : SemIds,
             primary : ResolveTables, semIsDict : BOOLEAN, secondary : ResolveTables,
             result : {{}} ]

\* One call of _resolve_label.
ResolveStep ==
  /\ lr.pc = "query"
  /\ lr' = [lr EXCEPT !.pc = "done",
                      !.result = ResolveLabel(lr.id, lr.primary, lr.semIsDict, lr.secondary)]
  /\ UNCHANGED <<sm, bx, appVars>>

ResolveNext == ResolveStep

SpecResolve == ResolveInit /\ [][ResolveNext]_vars

(***************************************************************************)
(* C7: label resolution as the claim states it                             *)
(***************************************************************************)

\* The classes a table value offers: its class field, its nested labels.class
\* field, or the value itself when it is a bare string (empty strings are no class).
ClaimClassesOf(v) ==
  IF v.kind = "str" THEN {s \in {v.s} : s # ""}
  ELSE IF v.kind = "dict"
    THEN {s \in v.cls : s # ""} \cup (IF v.labels THEN {s \in v.lcls : s # ""} ELSE {})
    ELSE {}

\* The classes a table holds for an id under either key form.
ClaimHeld(d, id) ==
  UNION { ClaimClassesOf(d[i].val) : i \in {j \in 1..Len(d) : d[j].key \in {StrKey(id), IntKey(id)}} }

\* C7: the result is a class the primary table holds for the id under its string
\* or its integer key whenever there is one; otherwise a class the secondary
\* table holds; otherwise absence.
C7_ResolveAsClaimed ==
  lr.pc = "done" =>
    LET p == ClaimHeld(lr.primary, lr.id)
        s == IF lr.semIsDict THEN ClaimHeld(lr.secondary, lr.id) ELSE {}
    IN IF p # {} THEN lr.result # {} /\ lr.result \subseteq p
       ELSE IF s # {} THEN lr.result # {} /\ lr.result \subseteq s
       ELSE lr.result = {}

(***************************************************************************)
(* The buffer and semantic stages as a run over bounded payloads           *)
(***************************************************************************)

\* Raw color buffers: both axis orders, with and without alpha, and two malformed.
RgbShapes ==
  { <<ResH, ResW, 3>>, <<ResW, ResH, 4>>, <<ResH, ResW>>, <<ResH, ResW, 2>> }

Pattern(h, w, a, b) ==
  [r \in 1..h |-> [c \in 1..w |-> IF (r + c) % 2 = 0 THEN a ELSE b]]

\* Semantic grids: the image's size in both axis orders, a singleton channel, two
\* channels, other sizes, one axis.
SemShapes ==
  { <<ResH, ResW>>, <<ResW, ResH>>, <<ResH, ResW, 1>>, <<ResH, ResW, 2>>,
    <<1, 1>>, <<ResH + 1, ResW>>, <<ResW>> }

SemArrays ==
  { [shape |-> sh,
     px |-> IF Len(sh) >= 2 THEN Pattern(sh[1], sh[2], a, b) ELSE <<>>] :
    sh \in SemShapes, a \in SemIds, b \in SemIds }

SemValues ==
  { LStr("cone"), LDict({"cone"}, FALSE, {}), LDict({}, TRUE, {"sphere"}),
    LDict({""}, TRUE, {"cube"}), LDict({"dog"}, FALSE, {}), LNone }

SemKeys == ResolveKeys \cup {WordKey}

\* Tables with at most two entries: "str", "int" and word keys, both orders.
SemEntries ==
  {<<>>}
  \cup { <<[key |-> k, val |-> v]>> : k \in SemKeys, v \in SemValues }
  \cup UNION { { <<[key |-> k1, val |-> v1], [key |-> k2, val |-> v2]>> :
                   k2 \in ResolveKeys \ {k1}, v1 \in SemValues, v2 \in SemValues } :
                 k1 \in ResolveKeys }

\* A JSON object has string keys only.
JsonEntries == { e \in SemEntries : Len(e) <= 1 /\ \A i \in 1..Len(e) : e[i].key.t # "int" }

SemRaws ==
  { [wrapped |-> FALSE, data |-> {}, bare |-> b, enc |-> "absent", entries |-> <<>>] :
      b \in {{}} \cup {{a} : a \in SemArrays} }
  \cup { [wrapped |-> TRUE, data |-> d, bare |-> {}, enc |-> "dict", entries |-> e] :
      d \in {{}} \cup {{a} : a \in SemArrays}, e \in SemEntries }
  \cup { [wrapped |-> TRUE, data |-> d, bare |-> {}, enc |-> "json", entries |-> e] :
      d \in {{a} : a \in SemArrays}, e \in JsonEntries }
  \cup { [wrapped |-> TRUE, data |-> d, bare |-> {}, enc |-> x, entries |-> <<>>] :
      d \in {{a} : a \in SemArrays}, x \in {"absent", "badjson"} }

SemInit ==
  /\ AppIdle
  /\ lr = LrIdle
  /\ bx = BoxIdle
  /\ sm \in { [SemIdle EXCEPT !.pc = "rgb", !.rgbShape = sh, !.raw = raw] :
              sh \in RgbShapes, raw \in SemRaws }

\* Lines 192-202: the color buffer is checked and normalized.
SemRgb ==
  /\ sm.pc = "rgb"
  /\ sm' = IF RgbShapeOk(sm.rgbShape)
             THEN [sm EXCEPT !.pc = "unwrap", !.H = RgbH(sm.rgbShape), !.W = RgbW(sm.rgbShape)]
             ELSE [sm EXCEPT !.pc = "returned_false"]
  /\ UNCHANGED <<lr, bx, appVars>>

\* Lines 207-220
SemUnwrap ==
  /\ sm.pc = "unwrap"
  /\ sm' = [sm EXCEPT !.pc = "shape", !.table = SemTable(sm.raw)]
  /\ UNCHANGED <<lr, bx, appVars>>

\* Lines 222-235
SemShape ==
  /\ sm.pc = "shape"
  /\ sm' = [sm EXCEPT !.pc = "mask", !.ids = SemIdsOf(SemData(sm.raw), sm.H, sm.W)]
  /\ UNCHANGED <<lr, bx, appVars>>

\* Lines 237-255
SemMask ==
  /\ sm.pc = "mask"
  /\ sm' = [sm EXCEPT !.pc = "blend", !.mask = MaskOf(sm.ids, sm.table)]
  /\ UNCHANGED <<lr, bx, appVars>>

\* Lines 257-260: the blend completes or raises (ValueError: operands could not be
\* broadcast together).
SemBlend ==
  /\ sm.pc = "blend"
  /\ sm' = [sm EXCEPT !.pc = IF BlendOk(sm.H, sm.W, sm.ids.shape) THEN "blended" ELSE "raised"]
  /\ UNCHANGED <<lr, bx, appVars>>

SemNext == SemRgb \/ SemUnwrap \/ SemShape \/ SemMask \/ SemBlend

SpecSem == SemInit /\ [][SemNext]_vars

(***************************************************************************)
(* C6, C8: the semantic stage as the claims state it                       *)
(***************************************************************************)

MaskBuilt == sm.pc \in {"blend", "blended", "raised"}

\* C6: for every semantic payload the stage never raises and the color mask has
\* the height and width of the normalized RGB image, so the blend completes; a
\* payload with two channels yields an all-black mask.
C6_MaskMatchesImage ==
  /\ sm.pc # "raised"
  /\ MaskBuilt =>
       /\ Len(sm.mask) = sm.H
       /\ \A r \in 1..Len(sm.mask) : Len(sm.mask[r]) = sm.W
       /\ (\E a \in SemData(sm.raw) : Len(a.shape) = 3 /\ a.shape[3] = 2) =>
            \A r \in 1..Len(sm.mask) : \A c \in 1..Len(sm.mask[r]) : sm.mask[r][c] = Black

\* C8: every pixel of the mask has its class's table color exactly when the label
\* resolver resolves the pixel's id to a class of the class-color table, and is
\* black otherwise.
C8_MaskAgreesWithResolver ==
  MaskBuilt =>
    \A r \in 1..Len(sm.mask) : \A c \in 1..Len(sm.mask[r]) :
      LET lbl == ResolveLabel(sm.ids.px[r][c], <<>>, sm.table.isDict, sm.table.entries)
      IN sm.mask[r][c] =
           IF \E k \in lbl : k \in DOMAIN CLASS_TO_COLOR
             THEN CLASS_TO_COLOR[CHOOSE k \in lbl : TRUE]
             ELSE Black

(***************************************************************************)
(* The bounding-box stage as a run over bounded payloads                   *)
(***************************************************************************)

\* Coordinates in tenths: negative, a fraction, a pixel inside, a pixel beyond
\* the image.
CoordX == {-10, 5, 20, 50}
CoordY == {-10, 5, 50}

GeometryRows ==
  { ListRow(<<Whole(7), Num(x0), Num(y0), Num(x1), Num(y1)>>) :
      x0 \in CoordX, y0 \in CoordY, x1 \in CoordX, y1 \in CoordY }

InsideCells == <<Whole(1), Whole(0), Whole(2), Whole(1)>>
CoordNames == <<"x_min", "y_min", "x_max", "y_max">>
CoordAliases == <<"xmin", "ymin", "xmax", "ymax">>

LabelRows ==
  { ListRow(<<Whole(0)>> \o InsideCells),
    ListRow(<<Num(79)>> \o InsideCells),
    ListRow(<<Whole(7)>> \o InsideCells \o <<Num(3)>>),
    ListRow(<<Whole(7)>> \o InsideCells \o <<BadCell>>),
    DictRow(<<"semanticId">> \o CoordNames, <<Whole(7)>> \o InsideCells),
    DictRow(<<"id">> \o CoordAliases, <<Whole(7)>> \o InsideCells) }

MalformedRows ==
  { ListRow(<<Whole(7), Whole(0), Whole(0), Whole(1)>>),
    ListRow(<<Whole(7), Whole(0), BadCell, Whole(1), Whole(1)>>),
    ListRow(<<BadCell>> \o InsideCells),
    DictRow(CoordNames, InsideCells),
    DictRow(<<"semanticId", "x_min", "y_min", "y_max">>, <<Whole(7), Whole(0), Whole(0), Whole(1)>>),
    DictRow(<<"semanticId">> \o CoordNames, <<Whole(7), Whole(0), Whole(0), BadCell, Whole(1)>>) }

ScalarRuns ==
  { <<Scalar(Whole(7)), Scalar(Whole(0)), Scalar(Whole(0)), Scalar(Whole(2)), Scalar(Whole(1))>>,
    <<Scalar(Whole(7)), Scalar(Whole(0)), Scalar(Whole(0))>>,
    <<Scalar(Whole(7)), ListRow(<<Whole(7)>> \o InsideCells)>> }

\* The rows that appear in two-row containers.
PairRows ==
  { ListRow(<<Whole(7)>> \o InsideCells),
    ListRow(<<Whole(0)>> \o InsideCells),
    ListRow(<<Whole(7), Whole(0), Whole(0), Whole(1)>>),
    ListRow(<<Whole(7), Whole(0), BadCell, Whole(1), Whole(1)>>),
    DictRow(CoordNames, InsideCells),
    Scalar(Whole(7)) }

MaxRows == 2

RECURSIVE SeqsOf(_, _)
\* The sequences of exactly n elements of S.
SeqsOf(S, n) ==
  IF n = 0 THEN {<<>>} ELSE {<<x>> \o t : x \in S, t \in SeqsOf(S, n - 1)}

BboxDatas ==
  { NoData, [NoData EXCEPT !.kind = "other"], [NoData EXCEPT !.kind = "list"],
    [NoData EXCEPT !.kind = "array", !.ndim = 2] }
  \cup { [kind |-> "list", structured |-> FALSE, ndim |-> 1, items |-> <<r>>] :
           r \in GeometryRows \cup LabelRows \cup MalformedRows }
  \cup { [kind |-> "array", structured |-> st, ndim |-> IF st THEN 1 ELSE 2, items |-> <<r>>] :
           st \in BOOLEAN, r \in GeometryRows }
  \cup { [kind |-> k, structured |-> FALSE, ndim |-> 1, items |-> run] :
           k \in {"list", "array"}, run \in ScalarRuns }
  \cup { [kind |-> "list", structured |-> FALSE, ndim |-> 1, items |-> rs] :
           rs \in UNION { SeqsOf(PairRows, n) : n \in 2..MaxRows } }

BoxEntries ==
  { <<>>,
    <<[key |-> StrKey(7), val |-> LStr("cone")]>>,
    <<[key |-> StrKey(7), val |-> LStr("dog")]>>,
    <<[key |-> IntKey(7), val |-> LDict({"ground"}, FALSE, {})]>>,
    <<[key |-> StrKey(-1), val |-> LDict({"cube"}, FALSE, {})]>> }

BoxSemTables ==
  { NoTable,
    [isDict |-> TRUE, entries |-> <<[key |-> StrKey(7), val |-> LStr("sphere")]>>] }

BboxRaws ==
  { [NoBboxRaw EXCEPT !.bare = d] : d \in BboxDatas }
  \cup { [NoBboxRaw EXCEPT !.wrapped = TRUE, !.data = d, !.enc = "dict", !.entries = e] :
           d \in BboxDatas, e \in BoxEntries }
  \cup { [NoBboxRaw EXCEPT !.wrapped = TRUE, !.data = d, !.enc = x,
                           !.entries = IF x = "json" THEN <<[key |-> StrKey(7), val |-> LStr("cube")]>>
                                       ELSE <<>>] :
           d \in {dd \in BboxDatas : Len(dd.items) = 0}, x \in {"json", "badjson"} }

BoxInit ==
  /\ AppIdle
  /\ lr = LrIdle
  /\ sm = SemIdle
  /\ bx \in { [BoxIdle EXCEPT !.pc = "normalize", !.W = ResW, !.H = ResH, !.raw = raw, !.sem = t] :
              raw \in BboxRaws, t \in BoxSemTables }

\* Lines 265-318: the rows and the bbox table are normalized.
BoxNormalize ==
  /\ bx.pc = "normalize"
  /\ bx' = [bx EXCEPT !.pc = "loop", !.rows = RowsOf(BboxData(bx.raw)),
                      !.table = BboxTable(bx.raw), !.i = 1]
  /\ UNCHANGED <<lr, sm, appVars>>

\* Lines 377-423: one iteration of `for row in bbox_rows`; a row that holds a value
\* int()/float() cannot convert raises out of the loop.
BoxRow ==
  /\ bx.pc = "loop"
  /\ bx.i <= Len(bx.rows)
  /\ LET row == bx.rows[bx.i]
         ops == RowDraws(row, bx.W, bx.H, bx.table, bx.sem)
     IN
     bx' = IF RowSkipped(row) THEN [bx EXCEPT !.i = bx.i + 1]
           ELSE IF RowRaises(row) THEN [bx EXCEPT !.pc = "raised"]
           ELSE [bx EXCEPT !.i = bx.i + 1,
                           !.overlay = bx.overlay \o
                              [k \in DOMAIN ops |->
                                 [row |-> bx.i, id |-> ops[k].id, box |-> ops[k].box,
                                  text |-> ops[k].text]]]
  /\ UNCHANGED <<lr, sm, appVars>>

\* The loop ends: the overlay is complete.
BoxDone ==
  /\ bx.pc = "loop"
  /\ bx.i > Len(bx.rows)
  /\ bx' = [bx EXCEPT !.pc = "drawn"]
  /\ UNCHANGED <<lr, sm, appVars>>

BoxNext == BoxNormalize \/ BoxRow \/ BoxDone

SpecBox == BoxInit /\ [][BoxNext]_vars

(***************************************************************************)
(* C3, C4, C5: the bounding-box stage as the claims state it               *)
(***************************************************************************)

Ops == {bx.overlay[k] : k \in 1..Len(bx.overlay)}

\* C3: every normalized box has xmin <= xmax, ymin <= ymax and lies within
\* [0, W-1] x [0, H-1], whatever the row's coordinates are.
C3_BoxWithinImage ==
  \A op \in Ops :
    /\ op.box[1] <= op.box[3] /\ op.box[2] <= op.box[4]
    /\ 0 <= op.box[1] /\ op.box[3] <= bx.W - 1
    /\ 0 <= op.box[2] /\ op.box[4] <= bx.H - 1

\* The closed set of classes of create_scene (lines 131-138).
KnownClasses == {"ground", "cone", "sphere", "cube"}

\* C4: every label text drawn in the overlay is one of the fixed classes.
C4_DrawnLabelsKnown == \A op \in Ops : op.text \subseteq KnownClasses

\* A malformed row as the claim lists them: a positional row with fewer than 5
\* values, a dict row missing the id or a coordinate under both spellings, a row
\* whose id or coordinates hold a value that is no number.
HasField(row, a, b) == \E i \in 1..Len(row.keys) : row.keys[i] \in {a, b}
Malformed(row) ==
  \/ row.form # "dict" /\ Len(row.cells) < 5
  \/ row.form = "dict" /\
       ~( /\ HasField(row, "semanticId", "id")
          /\ \A n \in 1..4 : HasField(row, CoordNames[n], CoordAliases[n]) )
  \/ RowRaises(row)

\* C5: a malformed row is dropped without being drawn and never aborts the frame.
C5_MalformedRowsDropped ==
  /\ bx.pc # "raised"
  /\ \A j \in 1..Len(bx.rows) :
       (j < bx.i /\ Malformed(bx.rows[j])) => ~\E op \in Ops : op.row = j

(***************************************************************************)
(* The scenario and the UI callbacks (scenario.py 80-195, 361-464;         *)
(* ui_builder.py 28-33, 79-101)                                            *)
(***************************************************************************)

\* Bounds on a run: the Start clicks, the Create Scene clicks, and the tasks the
\* event loop holds at once (a click that would exceed it waits).
MaxStarts == 2
MaxScenes == 2
MaxPending == 2

\* The two settle cycles generate_one_frame_async awaits (lines 175-178).
SettleCycles == 2

\* The artifacts of a frame, in the order lines 434-457 write them.
ArtifactKinds == <<"rgb", "mask", "overlay", "bboxes">>

\* A task as asyncio.ensure_future creates it: not started yet. half: the task has
\* come back from next_update_async since the annotators were bound and not yet
\* from the step_async that follows.
NewTask(kind) == [kind |-> kind, pc |-> "scheduled", half |-> FALSE]

\* The captures that are running generate_one_frame_async (past the guard, not
\* yet returned).
InFlight ==
  LET S == {t \in BagToSet(tasks) : t.kind = "capture" /\ t.pc # "scheduled"}
  IN BagCardinality([t \in S |-> CopiesIn(t, tasks)])

\* The event loop's tasks: one more, one fewer (a task that ended), one moved on.
With(t) == tasks (+) SetToBag({t})
Without(t) == tasks (-) SetToBag({t})
Moved(t, u) == (tasks (-) SetToBag({t})) (+) SetToBag({u})

\* create_scene binds new annotators: no task's pending cycle counts for them.
HalvesCleared ==
  LET S == {[t EXCEPT !.half = FALSE] : t \in BagToSet(tasks)}
  IN [u \in S |-> CopiesIn(u, tasks) + CopiesIn([u EXCEPT !.half = TRUE], tasks)]

\* One frame's raw annotator outputs and the environment's answer to the writes:
\* ioFailAt = k < 4 means the write after k artifacts raises (makedirs when k = 0).
FrameInput(fr, shape, semRaw, bboxRaw, k) ==
  [fetchRaises |-> fr, rgbShape |-> shape, sem |-> semRaw, bbox |-> bboxRaw, ioFailAt |-> k]

GoodBbox ==
  [NoBboxRaw EXCEPT !.wrapped = TRUE, !.enc = "dict",
     !.entries = <<[key |-> StrKey(7), val |-> LStr("cone")]>>,
     !.data = [kind |-> "list", structured |-> FALSE, ndim |-> 1,
               items |-> <<ListRow(<<Whole(7)>> \o InsideCells)>>]]
BadRowBbox ==
  [GoodBbox EXCEPT !.data.items = <<ListRow(<<Whole(7), Whole(0), BadCell, Whole(1), Whole(1)>>)>>]
ShortRowBbox ==
  [GoodBbox EXCEPT !.data.items = <<ListRow(<<Whole(7), Whole(0), Whole(0), Whole(1)>>)>>]
GoodSem ==
  [NoSemRaw EXCEPT !.wrapped = TRUE, !.enc = "dict",
     !.entries = <<[key |-> StrKey(7), val |-> LDict({"cone"}, FALSE, {})]>>,
     !.data = {[shape |-> <<ResH, ResW>>, px |-> Pattern(ResH, ResW, 7, 0)]}]
OddSizeSem ==
  [GoodSem EXCEPT !.data = {[shape |-> <<ResH + 1, ResW>>, px |-> Pattern(ResH + 1, ResW, 7, 0)]}]
TwoChannelSem ==
  [GoodSem EXCEPT !.data = {[shape |-> <<ResH, ResW, 2>>, px |-> Pattern(ResH, ResW, 7, 0)]}]

FrameInputs ==
  { FrameInput(TRUE, <<ResH, ResW, 3>>, GoodSem, GoodBbox, 4) }
  \cup { FrameInput(FALSE, sh, GoodSem, GoodBbox, 4) : sh \in RgbShapes }
  \cup { FrameInput(FALSE, <<ResH, ResW, 3>>, sr, GoodBbox, 4) :
           sr \in {NoSemRaw, OddSizeSem, TwoChannelSem} }
  \cup { FrameInput(FALSE, <<ResH, ResW, 3>>, GoodSem, br, 4) :
           br \in {NoBboxRaw, BadRowBbox, ShortRowBbox} }
  \cup { FrameInput(FALSE, <<ResH, ResW, 3>>, GoodSem, GoodBbox, k) : k \in {0, 2} }

\* Lines 181-187: a get_data() call raises; the except clause returns False.
FetchFails(in) == in.fetchRaises

\* Lines 204-260: the semantic stage and the blend complete (no exception).
BlendCompletes(in) ==
  LET H == RgbH(in.rgbShape)
      W == RgbW(in.rgbShape)
  IN BlendOk(H, W, SemIdsOf(SemData(in.sem), H, W).shape)

\* Lines 377-394: some row of the frame raises in the loop.
RowsRaise(in) ==
  LET rows == RowsOf(BboxData(in.bbox)) IN \E j \in 1..Len(rows) : RowRaises(rows[j])

\* Where generate_one_frame_async ends for a frame, once the awaits are done.
CaptureEnd(in) ==
  IF FetchFails(in) THEN "fetch"
  ELSE IF ~RgbShapeOk(in.rgbShape) THEN "rgb"
  ELSE IF ~BlendCompletes(in) THEN "blend"
  ELSE IF RowsRaise(in) THEN "rows"
  ELSE IF in.ioFailAt < Len(ArtifactKinds) THEN "persist"
  ELSE "saved"

\* The capture returns False at these, raises at those, returns True at "saved".
ReturnsFalseAt == {"guard", "fetch", "rgb"}
RaisesAt == {"blend", "rows", "persist"}
\* Lines 364-365 moved above the color-buffer check.
TakesIndexEarly == {"rgb", "blend", "rows", "persist", "saved"}
\* Lines 364-365 run for the frames that get past the blend.
TakesIndexAt == {"rows", "persist", "saved"}

HowEnded(end) ==
  IF end \in ReturnsFalseAt THEN "returned_false"
  ELSE IF end \in RaisesAt THEN "raised" ELSE "returned_true"

\* Line 365 without its effect: the index is read and not incremented.
FrameIdxKept(i) == i
\* Line 365: self._frame_idx += 1
NextFrameIdx(i) == i + 1

\* A reset() that starts the numbering again.
FrameIdxRestarted(i) == 0
\* reset() (lines 98-107) leaves _frame_idx alone.
FrameIdxAfterReset(i) == i

\* Lines 428-457: the artifacts a frame that reached the writes leaves behind.
Written(idx, in) ==
  { <<idx, ArtifactKinds[k]>> : k \in 1..Min2(in.ioFailAt, Len(ArtifactKinds)) }

\* Line 97: the status _start_async sets once the capture has returned; a capture
\* that raises leaves the label as it is.
StatusAfter(end, old) ==
  IF end \in ReturnsFalseAt THEN "Status: failed (see Console)."
  ELSE IF end \in RaisesAt THEN old ELSE "Status: done."

\* A step_async that follows a next_update_async made after the binding completes
\* a settle cycle.
SettledAfter(t) == IF t.half THEN Min2(settled + 1, SettleCycles) ELSE settled

\* The record of the capture that ended last:
\*   n      how many captures have ended
\*   how    returned_true / returned_false / raised, at which stage
\*   idx    the frame index it took ({} if it ended before line 364)
\*   rank   how many captures had returned True before it ended
\*   seen   the settle cycles completed since the binding when it called get_data
\*   live   whether the scene was created (self._created) when it called get_data
\*   wrote  the artifacts it wrote
NoCapture ==
  [n |-> 0, how |-> "none", stage |-> "none", idx |-> {}, rank |-> 0, seen |-> {},
   live |-> {}, wrote |-> {}]

AppInit ==
  /\ AppIdle
  /\ lr = LrIdle
  /\ sm = SemIdle
  /\ bx = BoxIdle

\* reset(): the scene is forgotten; the annotator handles and the frame index stay.
\* UIBuilder._on_reset
OnReset ==
  /\ created' = FALSE
  /\ render_product' = {}
  /\ frame_idx' = FrameIdxAfterReset(frame_idx)
  /\ status' = "Status: reset."
  /\ UNCHANGED <<ann, scenes, tasks, files, settled, started, ntrue, took, last, pipeVars>>

\* UIBuilder.on_stage_event for StageEventType.OPENED
OnStageOpened ==
  /\ created' = FALSE
  /\ render_product' = {}
  /\ frame_idx' = FrameIdxAfterReset(frame_idx)
  /\ status' = "Status: stage opened -> reset."
  /\ UNCHANGED <<ann, scenes, tasks, files, settled, started, ntrue, took, last, pipeVars>>

\* UIBuilder._on_create_scene: create_scene() (reset, new render product, new
\* annotators attached to it) and ensure_future(flush()).
OnCreateScene ==
  /\ scenes < MaxScenes
  /\ BagCardinality(tasks) < MaxPending
  /\ scenes' = scenes + 1
  /\ created' = TRUE
  /\ render_product' = {scenes + 1}
  /\ ann' = {scenes + 1}
  /\ frame_idx' = FrameIdxAfterReset(frame_idx)
  /\ settled' = 0
  /\ tasks' = HalvesCleared (+) SetToBag({NewTask("flush")})
  /\ status' = "Status: scene created."
  /\ UNCHANGED <<files, started, ntrue, took, last, pipeVars>>

\* UIBuilder._on_start: ensure_future(_start_async()), with no check of the tasks
\* already made.
OnStart ==
  /\ started < MaxStarts
  /\ BagCardinality(tasks) < MaxPending
  /\ started' = started + 1
  /\ status' = "Status: generating..."
  /\ tasks' = With(NewTask("capture"))
  /\ UNCHANGED <<created, render_product, ann, scenes, frame_idx, files, settled, ntrue, took,
                 last, pipeVars>>

\* The event loop starts a capture task: lines 170-175, up to the first await; a
\* capture before create_scene returns False and _start_async reports it.
CaptureBegin(t) ==
  /\ t.kind = "capture" /\ t.pc = "scheduled"
  /\ IF ~created \/ render_product = {}
       THEN /\ tasks' = Without(t)
            /\ last' = [NoCapture EXCEPT !.n = last.n + 1, !.how = "returned_false",
                                         !.stage = "guard", !.rank = ntrue]
            /\ status' = StatusAfter("guard", status)
       ELSE /\ tasks' = Moved(t, [t EXCEPT !.pc = "update1"])
            /\ UNCHANGED <<last, status>>
  /\ UNCHANGED <<created, render_product, ann, scenes, frame_idx, files, settled, started,
                 ntrue, took, pipeVars>>

\* The event loop starts a flush task (lines 94-95).
FlushBegin(t) ==
  /\ t.kind = "flush" /\ t.pc = "scheduled"
  /\ tasks' = Moved(t, [t EXCEPT !.pc = "update1"])
  /\ UNCHANGED <<created, render_product, ann, scenes, frame_idx, files, status, settled,
                 started, ntrue, took, last, pipeVars>>

\* A task comes back from `await app.next_update_async()` and calls step_async.
AfterUpdate(t) ==
  /\ t.pc \in {"update1", "update2"}
  /\ tasks' = Moved(t, [t EXCEPT !.pc = IF t.pc = "update1" THEN "step1" ELSE "step2",
                                 !.half = TRUE])
  /\ UNCHANGED <<created, render_product, ann, scenes, frame_idx, files, status, settled,
                 started, ntrue, took, last, pipeVars>>

\* A task comes back from its first `await rep.orchestrator.step_async()`: a
\* capture goes on to its second cycle, flush() is done.
AfterStep(t) ==
  /\ t.pc = "step1"
  /\ settled' = SettledAfter(t)
  /\ tasks' = IF t.kind = "flush" THEN Without(t)
              ELSE Moved(t, [t EXCEPT !.pc = "update2", !.half = FALSE])
  /\ UNCHANGED <<created, render_product, ann, scenes, frame_idx, files, status, started,
                 ntrue, took, last, pipeVars>>

\* A capture comes back from its second step_async and runs lines 180-464 to the
\* end with no further await; _start_async then sets the status (line 97) unless
\* the capture raised.
CaptureFinish(t, in) ==
  /\ t.kind = "capture" /\ t.pc = "step2"
  /\ LET end == CaptureEnd(in)
         tk == end \in TakesIndexAt
         out == IF end \in {"persist", "saved"} THEN Written(frame_idx, in) ELSE {}
     IN
     /\ settled' = SettledAfter(t)
     /\ frame_idx' = IF tk THEN NextFrameIdx(frame_idx) ELSE frame_idx
     /\ took' = IF tk THEN took + 1 ELSE took
     /\ files' = files \cup out
     /\ ntrue' = IF end = "saved" THEN ntrue + 1 ELSE ntrue
     /\ last' = [n |-> last.n + 1, how |-> HowEnded(end), stage |-> end,
                 idx |-> IF tk THEN {frame_idx} ELSE {}, rank |-> ntrue,
                 seen |-> {SettledAfter(t)}, live |-> {created}, wrote |-> out]
     /\ status' = StatusAfter(end, status)
     /\ tasks' = Without(t)
  /\ UNCHANGED <<created, render_product, ann, scenes, started, pipeVars>>

Next ==
  \/ OnReset
  \/ OnStageOpened
  \/ OnCreateScene
  \/ OnStart
  \/ \E t \in BagToSet(tasks) : CaptureBegin(t)
  \/ \E t \in BagToSet(tasks) : FlushBegin(t)
  \/ \E t \in BagToSet(tasks) : AfterUpdate(t)
  \/ \E t \in BagToSet(tasks) : AfterStep(t)
  \/ \E t \in BagToSet(tasks) : \E in \in FrameInputs : CaptureFinish(t, in)

Spec == AppInit /\ [][Next]_vars

(***************************************************************************)
(* C1, C2, C9, C10: the frame index, failed fetches, settle cycles and      *)
(* captures in flight                                                      *)
(***************************************************************************)
AllArtifacts(idx) == { <<idx, ArtifactKinds[k]>> : k \in 1..Len(ArtifactKinds) }

\* C1 as stated: the frame index starts at 0, the n-th capture that returns True
\* writes its artifacts under index n-1 (last.rank captures returned True before
\* it), and a capture that failed at the fetch or the color-buffer check took no
\* index.
C1_NthTrueWritesNMinus1 ==
  /\ (took = 0 => frame_idx = 0)
  /\ (last.how = "returned_true" => last.idx = {last.rank} /\ last.wrote = AllArtifacts(last.rank))
  /\ (last.stage \in {"fetch", "rgb"} => last.idx = {})

\* C1 amended: the frame index starts at 0 and counts the captures that reached
\* lines 364-365, whether they then returned True or raised, and whatever
\* create_scene and reset calls came between; a capture that returns True
\* writes its four artifacts under the index it took, which no earlier capture
\* wrote under and which is at least the number of captures that returned True
\* before it; every written index is below the counter; a capture that ended
\* before line 364 took no index.
C1_IndexCountsCapturesReachingStage ==
  /\ frame_idx = took
  /\ \A f \in files : f[1] < frame_idx
  /\ (last.how = "returned_true" =>
        /\ last.idx = {frame_idx - 1}
        /\ last.wrote = AllArtifacts(frame_idx - 1)
        /\ last.rank <= frame_idx - 1)
  /\ (last.stage \in {"guard", "fetch", "rgb", "blend"} => last.idx = {})

\* A capture returned True under index 1 although none had returned True before:
\* an earlier capture raised after taking index 0; the scene has since been reset.
C1_Witness ==
  /\ last.how = "returned_true" /\ last.idx = {1} /\ last.rank = 0
  /\ ~created

\* C2: a capture that ends because a get_data() call raised or because the color
\* buffer is not 3-dimensional with 3 or 4 channels returns False, writes no
\* artifact and leaves the frame index unchanged.
C2_FailedFetchWritesNothing ==
  [][(last'.n = last.n + 1 /\ last'.stage \in {"fetch", "rgb"}) =>
       /\ last'.how = "returned_false"
       /\ files' = files
       /\ frame_idx' = frame_idx
       /\ last'.idx = {} /\ last'.wrote = {}]_vars

\* A capture failed at the color-buffer check after another had written frame 0.
C2_Witness ==
  /\ last.stage = "rgb" /\ last.how = "returned_false"
  /\ frame_idx = 1 /\ files = AllArtifacts(0)

\* C9 as stated: a capture that calls get_data() does so after at least two
\* settle cycles (an app update, then an orchestrator step) completed since the
\* annotators it reads were bound by create_scene.
C9_SettledBeforeFetch == \A c \in last.seen : c >= SettleCycles

\* C11 as stated: between a reset() and the next completed create_scene() no
\* capture reads the annotators or writes artifacts: every capture that called
\* get_data() did so while the scene was created.
C11_NoFetchAfterReset == \A b \in last.live : b

\* C10 as stated: at most one capture is in flight (begun and not yet returned)
\* at any time.
C10_OneCaptureInFlight == InFlight <= 1

\* The Start clicks whose capture has not ended yet.
CapturesPending == {t \in BagToSet(tasks) : t.kind = "capture"}

\* C13 as stated: every Start click ends with a reported outcome, so once every
\* capture has ended the status no longer says "generating...": the capture that
\* ended last has set it to "done." or "failed (see Console)." (or a later
\* click has replaced it).
C13_OutcomeReported ==
  CapturesPending = {} => status # "Status: generating..."

\* C14: no step lowers the frame index, reset and create_scene included; a
\* capture that takes an index takes the counter's value and leaves the counter
\* above it in the same step, so no other capture, in flight or later, obtains
\* it; and no file of that index existed before, so the capture overwrites no
\* file of another capture.
C14_IndexNeverShared ==
  [][/\ frame_idx' >= frame_idx
     /\ (last'.n = last.n + 1 =>
           \A i \in last'.idx :
             /\ i = frame_idx
             /\ frame_idx' > i
             /\ \A f \in files : f[1] # i
             /\ \A f \in last'.wrote : f[1] = i)]_vars

\* Two captures were in flight when the scene was reset: one has since written
\* frame 0 (it fetched after the reset), the other is still in flight.
C14_Witness ==
  /\ InFlight = 1 /\ ~created /\ scenes = 1
  /\ last.how = "returned_true" /\ last.live = {FALSE} /\ last.idx = {0}
  /\ files = AllArtifacts(0)

(***************************************************************************)
(* The row loop as a run over coordinate rows (lines 377-394)              *)
(***************************************************************************)

\* (W, H) of the color buffer: the model's image and a 200 x 100 one.
CoordResolutions == {<<ResW, ResH>>, <<200, 100>>}

\* Coordinates in tenths: fractions of the image (0 .. 1.5), values just above
\* 1.5, negative values and pixel values.
CoordValsX == {-10, 0, 1, 4, 15, 16, 800}
CoordValsY == {-10, 0, 2, 6, 15, 16, 400}

CoordRows ==
  { DictRow(<<"semanticId">> \o CoordNames, <<Whole(7), Num(x0), Num(y0), Num(x1), Num(y1)>>) :
      x0 \in CoordValsX, y0 \in CoordValsY, x1 \in CoordValsX, y1 \in CoordValsY }
  \cup { ListRow(<<Whole(7), Num(x0), Num(y0), Num(x1), Num(y1)>>) :
      x0 \in CoordValsX, y0 \in CoordValsY, x1 \in CoordValsX, y1 \in CoordValsY }

CoordInit ==
  /\ AppIdle
  /\ lr = LrIdle
  /\ sm = SemIdle
  /\ bx \in { [BoxIdle EXCEPT !.pc = "normalize", !.W = r[1], !.H = r[2],
                               !.raw = [GoodBbox EXCEPT !.data.items = <<row>>]] :
              r \in CoordResolutions, row \in CoordRows }

SpecCoord == CoordInit /\ [][BoxNext]_vars

(***************************************************************************)
(* C12: coordinate normalization as the claim states it                    *)
(***************************************************************************)

\* The claim's rule on a row's four coordinates (tenths): all within [0, 1.5]:
\* x times the width, y times the height, then truncated; otherwise truncated
\* as they are.
ClaimPixels(c, W, H) ==
  IF \A i \in 2..5 : 0 <= c[i].v /\ c[i].v <= 15
    THEN <<IntOf(c[2].v * W), IntOf(c[3].v * H), IntOf(c[4].v * W), IntOf(c[5].v * H)>>
    ELSE <<IntOf(c[2].v), IntOf(c[3].v), IntOf(c[4].v), IntOf(c[5].v)>>

\* The claim's pixels lie in the image and are ordered: the clamp and the sort of
\* lines 393-394 leave them as they are.
ClaimInside(q, W, H) ==
  /\ 0 <= q[1] /\ q[1] <= q[3] /\ q[3] <= W - 1
  /\ 0 <= q[2] /\ q[2] <= q[4] /\ q[4] <= H - 1

ScenarioRow ==
  DictRow(<<"semanticId">> \o CoordNames, <<Whole(7), Num(1), Num(2), Num(4), Num(6)>>)

\* C12: the box drawn for a row is the claim's pixels (fractions scaled by width
\* and height, anything else taken as pixels, truncated), clamped and sorted as
\* lines 393-394 do and unchanged when they lie in the image; the row
\* {semanticId: 7, x_min: 0.1, y_min: 0.2, x_max: 0.4, y_max: 0.6} at resolution
\* (200, 100) gives the box (20,20)-(80,60).
C12_CoordinateNormalization ==
  \A op \in Ops :
    LET row == bx.rows[op.row]
        q == ClaimPixels(RowCells(row), bx.W, bx.H)
        xa == Max2(0, q[1])
        xb == Min2(bx.W - 1, q[3])
        ya == Max2(0, q[2])
        yb == Min2(bx.H - 1, q[4])
    IN /\ op.box = <<Min2(xa, xb), Min2(ya, yb), Max2(xa, xb), Max2(ya, yb)>>
       /\ (ClaimInside(q, bx.W, bx.H) => op.box = q)
       /\ (row = ScenarioRow /\ bx.W = 200 /\ bx.H = 100 => op.box = <<20, 20, 80, 60>>)

\* The scenario row has been drawn at resolution (200, 100).
C12_Witness ==
  /\ bx.pc = "drawn" /\ bx.W = 200 /\ bx.H = 100
  /\ bx.rows = <<ScenarioRow>>
  /\ \E op \in Ops : op.row = 1 /\ op.box = <<20, 20, 80, 60>>

====
